---- MODULE Spec2Model ----
(***************************************************************************)
(* Model of src/kube.rs: the Kluster client (construction of the TLS       *)
(* transport, credential injection, response classification, and the get,  *)
(* get_value, get_read and delete operations).                             *)
(*                                                                         *)
(* Option<T> is modelled as a sequence of length 0 (None) or 1 (Some).     *)
(* Result<T,E> is a record with a field kind: "Ok", "Err" or "Panic"       *)
(* (an unwrap() on a failure unwinds instead of returning).                *)
(* An error value is named after the Rust type it is converted from.       *)
(***************************************************************************)
EXTENDS Integers, Sequences, FiniteSets, TLC

VARIABLES pc, args, client, caFile, transports, last, nBuilds, nTimeoutBuilds

vars == <<pc, args, client, caFile, transports, last, nBuilds, nTimeoutBuilds>>

\* ---------------------------------------------------------------- bounds
\* largest number of TLS transports built in one run
MaxTransports == 2

\* ---------------------------------------------------------------- inputs
None == <<>>
Some(x) == <<x>>

Tokens == {"tokA", "tokB"}
Servers == {"https://kube.example:6443", "not a url"}
Paths == {"/api/v1/pods", "https://["}
Statuses == {200, 401, 403, 503}
Bodies == {"garbage", "json", "json PodList"}

\* What the server does for one request: unreachable, or a response.
Responses ==
    [status : {200}, body : Bodies] \cup [status : Statuses \ {200}, body : {"garbage"}]
NoServer == [reach |-> FALSE, resp |-> [status |-> 503, body |-> "garbage"]]
ServerBehaviours == {NoServer} \cup [reach : {TRUE}, resp : Responses]

\* What the file at cert_path holds when it is read: whether it opens,
\* whether its PEM sections decode, and the sections it holds: the CA
\* certificate that signed the server's certificate, and a section the root
\* store rejects.
Certificates == {"server CA"}
PemSections == Certificates \cup {"not a certificate"}
CaFiles ==
    {[open |-> FALSE, pem |-> FALSE, sections |-> {}],
     [open |-> TRUE, pem |-> FALSE, sections |-> {}]}
    \cup [open : {TRUE}, pem : {TRUE}, sections : SUBSET PemSections]

\* ---------------------------------------------------------------- KlusterAuth
Token(t) == [tag |-> "Token", token |-> t]
CertKey(chain, key) == [tag |-> "CertKey", cert |-> chain, key |-> key]

with_token(token) == Token(token)
with_cert_and_key(cert, private_key) == CertKey(<<cert>>, private_key)

Auths == {with_token(t) : t \in Tokens} \cup {with_cert_and_key("certA", "keyA")}

\* ---------------------------------------------------------------- results
Ok(v) == [kind |-> "Ok", value |-> v]
Err(e) == [kind |-> "Err", error |-> e]
Panic(at) == [kind |-> "Panic", at |-> at]

\* KubeError::from(e), by the type of e
KubeErrorFrom(type) == [from |-> type]
\* KubeError::Kube(errno)
KubeErrorKube(errno) == [from |-> "KubeErrNo", errno |-> errno]

\* ---------------------------------------------------------------- Url
UrlParse(server) ==
    IF server = "https://kube.example:6443"
    THEN Ok([base |-> server, path |-> "/"])
    ELSE Err(KubeErrorFrom("url::ParseError"))

UrlJoin(endpoint, path) ==
    IF path = "https://["
    THEN Err(KubeErrorFrom("url::ParseError"))
    ELSE Ok([base |-> endpoint.base, path |-> path])

\* ---------------------------------------------------------------- make_tlsclient
\* the client identity attached to the TLS configuration
ClientIdentityNever(auth) == None

ClientIdentity(auth) ==
    IF auth.tag = "CertKey"
    THEN Some([cert |-> auth.cert, key |-> auth.key])
    ELSE None

\* RootCertStore::add_pem_file on an opened file whose sections decode:
\* the certificates added, and the numbers of sections added and rejected
AddPemFile(file) ==
    [roots |-> file.sections \cap Certificates,
     added |-> <<Cardinality(file.sections \cap Certificates),
                 Cardinality(file.sections \ Certificates)>>]

make_tlsclient(file, auth) ==
    IF ~file.open THEN Panic("File::open")
    ELSE IF ~file.pem THEN Panic("add_pem_file")
    ELSE [kind |-> "Ok",
          value |-> [roots |-> AddPemFile(file).roots,
                     identity |-> ClientIdentity(auth)],
          warned |-> AddPemFile(file).added[2] > 0]

\* ---------------------------------------------------------------- outcome of one call
\* steps: the fallible steps run, in order; reqs: the requests sent;
\* built: the transports built; warned: a warning was printed.
Outcome(steps, reqs, built, warned, result) ==
    [steps |-> steps, reqs |-> reqs, built |-> built, warned |-> warned,
     result |-> result]

\* HttpsConnector::new(tlsclient): the n-th connector of the run
Connector(n, tls) == [id |-> n, tls |-> tls]

\* the server's certificate verifies against the connector's root store
Trusts(connector) == "server CA" \in connector.tls.roots

Request(method, url, headers, via) ==
    [method |-> method, url |-> url, authorization |-> headers, via |-> via]

\* ---------------------------------------------------------------- Kluster::new
new(name, file, server, auth) ==
    LET tlsclient == make_tlsclient(file, auth)
        endpoint == UrlParse(server)
    IN  IF tlsclient.kind = "Panic"
        THEN Outcome(<<"make_tlsclient">>, <<>>, <<>>, FALSE, tlsclient)
        ELSE IF endpoint.kind = "Err"
        THEN Outcome(<<"make_tlsclient", "Url::parse">>, <<>>,
                     <<tlsclient.value>>, tlsclient.warned, endpoint)
        ELSE Outcome(<<"make_tlsclient", "Url::parse">>, <<>>,
                     <<tlsclient.value>>, tlsclient.warned,
                     Ok([name |-> name, endpoint |-> endpoint.value,
                         auth |-> auth, cert_path |-> "ca.pem",
                         client |-> Connector(1, tlsclient.value)]))

\* ---------------------------------------------------------------- header injection
BearerHeader(token) == Some([scheme |-> "Bearer", token |-> token])

\* send_req: the Authorization header put on the shared client's GET
send_req_authorization(auth) ==
    IF auth.tag = "Token" THEN BearerHeader(auth.token) ELSE None

get_read_authorization_forgotten(auth) == None

\* get_read with a timeout: the Authorization header set on the new request
get_read_authorization(auth) ==
    IF auth.tag = "Token" THEN BearerHeader(auth.token) ELSE None

\* delete: the Authorization header put on the shared client's DELETE
delete_authorization(auth) ==
    IF auth.tag = "Token" THEN BearerHeader(auth.token) ELSE None

\* ---------------------------------------------------------------- transport
\* RequestBuilder::send on the shared client (no read timeout is set)
ClientSend(connector, srv) ==
    IF srv.reach /\ Trusts(connector) THEN Ok(srv.resp) ELSE Err(KubeErrorFrom("hyper::Error"))

\* Request::with_connector: connects through the given connector
WithConnector(connector, srv) ==
    IF srv.reach /\ Trusts(connector) THEN Ok("connected") ELSE Err(KubeErrorFrom("hyper::Error"))

\* Request::set_read_timeout: an io::Result
SetReadTimeout(sockOk) ==
    IF sockOk THEN Ok("set") ELSE Err(KubeErrorFrom("io::Error"))

\* Request<Streaming>::send with a read timeout in force; late: the
\* response's first byte comes later than the timeout
StreamSend(srv, late) ==
    IF late THEN Err(KubeErrorFrom("hyper::Error")) ELSE Ok(srv.resp)

AndThen(o, step, r) == [o EXCEPT !.steps = Append(@, step), !.result = r]

\* ---------------------------------------------------------------- send_req
send_req(self, path, srv) ==
    LET url == UrlJoin(self.endpoint, path)
    IN  IF url.kind = "Err"
        THEN Outcome(<<"Url::join">>, <<>>, <<>>, FALSE, url)
        ELSE Outcome(<<"Url::join", "send">>,
                     <<Request("GET", url.value,
                               send_req_authorization(self.auth), self.client)>>,
                     <<>>, FALSE, ClientSend(self.client, srv))

\* ---------------------------------------------------------------- check_resp
check_resp_forbidden_as_unauthorized(resp) ==
    IF resp.status = 200 THEN Ok(resp)
    ELSE IF resp.status \in {401, 403} THEN Err(KubeErrorKube("Unauthorized"))
    ELSE Err(KubeErrorKube("Unknown"))

check_resp(resp) ==
    IF resp.status = 200 THEN Ok(resp)
    ELSE IF resp.status = 401 THEN Err(KubeErrorKube("Unauthorized"))
    ELSE Err(KubeErrorKube("Unknown"))

\* ---------------------------------------------------------------- serde_json
\* serde_json::from_reader into the target type: a fixed schema T accepts
\* only JSON of that schema, serde_json::Value accepts any JSON.
from_reader(target, resp) ==
    IF resp.body = "json PodList" \/ (target = "Value" /\ resp.body = "json")
    THEN Ok([type |-> target, of |-> resp.body])
    ELSE Err(KubeErrorFrom("serde_json::Error"))

\* ---------------------------------------------------------------- get, get_value
get_deserialize_first(self, path, srv) ==
    LET sent == send_req(self, path, srv)
    IN  IF sent.result.kind # "Ok" THEN sent
        ELSE LET parsed == from_reader("T", sent.result.value)
                 checked == check_resp(sent.result.value)
             IN  IF parsed.kind # "Ok" THEN AndThen(sent, "from_reader", parsed)
                 ELSE IF checked.kind # "Ok"
                 THEN AndThen(AndThen(sent, "from_reader", parsed), "check_resp", checked)
                 ELSE AndThen(AndThen(sent, "from_reader", parsed), "check_resp", parsed)

get(self, path, srv) ==
    LET sent == send_req(self, path, srv)
    IN  IF sent.result.kind # "Ok" THEN sent
        ELSE LET checked == check_resp(sent.result.value)
             IN  IF checked.kind # "Ok" THEN AndThen(sent, "check_resp", checked)
                 ELSE AndThen(AndThen(sent, "check_resp", checked), "from_reader",
                              from_reader("T", checked.value))

get_value(self, path, srv) ==
    LET sent == send_req(self, path, srv)
    IN  IF sent.result.kind # "Ok" THEN sent
        ELSE LET checked == check_resp(sent.result.value)
             IN  IF checked.kind # "Ok" THEN AndThen(sent, "check_resp", checked)
                 ELSE AndThen(AndThen(sent, "check_resp", checked), "from_reader",
                              from_reader("Value", checked.value))

\* ---------------------------------------------------------------- get_read
\* the branch taken when timeout.is_some(); fresh is the identity of the
\* connector built for this request
\* the end of the timeout branch: the response is classified
get_read_timeout_unclassified(started) == started

get_read_timeout_classify(started) ==
    IF started.result.kind # "Ok" THEN started
    ELSE AndThen(started, "check_resp", check_resp(started.result.value))

get_read_timeout(self, file, path, sockOk, late, srv, fresh) ==
    LET url == UrlJoin(self.endpoint, path)
        tlsclient == make_tlsclient(file, self.auth)
        connector == Connector(fresh, tlsclient.value)
        req == Request("GET", url.value, get_read_authorization(self.auth), connector)
    IN  IF url.kind = "Err"
        THEN Outcome(<<"Url::join">>, <<>>, <<>>, FALSE, url)
        ELSE IF tlsclient.kind = "Panic"
        THEN Outcome(<<"Url::join", "make_tlsclient">>, <<>>, <<>>, FALSE, tlsclient)
        ELSE LET built == Outcome(<<"Url::join", "make_tlsclient", "with_connector">>,
                                  <<>>, <<tlsclient.value>>, tlsclient.warned,
                                  WithConnector(connector, srv))
             IN  IF built.result.kind # "Ok" THEN built
                 ELSE IF SetReadTimeout(sockOk).kind # "Ok"
                 THEN AndThen(built, "set_read_timeout", SetReadTimeout(sockOk))
                 ELSE LET started == [AndThen(AndThen(built, "set_read_timeout",
                                                      SetReadTimeout(sockOk)),
                                              "send", StreamSend(srv, late))
                                      EXCEPT !.reqs = <<req>>]
                      IN  get_read_timeout_classify(started)

get_read_shared_only(self, file, path, timeout, sockOk, late, srv, fresh) ==
    LET sent == send_req(self, path, srv)
    IN  IF sent.result.kind # "Ok" THEN sent
        ELSE AndThen(sent, "check_resp", check_resp(sent.result.value))

get_read(self, file, path, timeout, sockOk, late, srv, fresh) ==
    IF timeout # None
    THEN get_read_timeout(self, file, path, sockOk, late, srv, fresh)
    ELSE LET sent == send_req(self, path, srv)
         IN  IF sent.result.kind # "Ok" THEN sent
             ELSE AndThen(sent, "check_resp", check_resp(sent.result.value))

\* ---------------------------------------------------------------- delete
delete_classified(self, path, srv) ==
    LET url == UrlJoin(self.endpoint, path)
    IN  IF url.kind = "Err"
        THEN Outcome(<<"Url::join">>, <<>>, <<>>, FALSE, url)
        ELSE LET sent == Outcome(<<"Url::join", "send">>,
                                 <<Request("DELETE", url.value,
                                           delete_authorization(self.auth), self.client)>>,
                                 <<>>, FALSE, ClientSend(self.client, srv))
             IN  IF sent.result.kind # "Ok" THEN sent
                 ELSE AndThen(sent, "check_resp", check_resp(sent.result.value))

delete(self, path, srv) ==
    LET url == UrlJoin(self.endpoint, path)
    IN  IF url.kind = "Err"
        THEN Outcome(<<"Url::join">>, <<>>, <<>>, FALSE, url)
        ELSE Outcome(<<"Url::join", "send">>,
                     <<Request("DELETE", url.value,
                               delete_authorization(self.auth), self.client)>>,
                     <<>>, FALSE, ClientSend(self.client, srv))

\* ---------------------------------------------------------------- state machine
\* last: the latest event, a call with its inputs and its outcome, or a
\* change of the file at cert_path
Call(op, path, timeout, sockOk, late, srv, out) ==
    [op |-> op, path |-> path, timeout |-> timeout, sockOk |-> sockOk,
     late |-> late, srv |-> srv, out |-> out]

NoOutcome == Outcome(<<>>, <<>>, <<>>, FALSE, Ok("none"))
NoCall == Call("none", "", None, TRUE, FALSE, NoServer, NoOutcome)
FileChanged == Call("ca file changed", "", None, TRUE, FALSE, NoServer, NoOutcome)

Init ==
    /\ pc = "start"
    /\ args = None
    /\ client = None
    /\ caFile \in CaFiles
    /\ transports = <<>>
    /\ last = NoCall
    /\ nBuilds = 0
    /\ nTimeoutBuilds = 0

\* how many times the call ran the step
Runs(out, step) == Cardinality({i \in 1..Len(out.steps) : out.steps[i] = step})

\* where control is after a call returned r
After(r) == IF r.kind = "Panic" THEN "aborted" ELSE "ready"

New(name, server, auth) ==
    /\ pc = "start"
    /\ LET out == new(name, caFile, server, auth)
       IN  /\ last' = Call("new", "", None, TRUE, FALSE, NoServer, out)
           /\ transports' = transports \o out.built
           /\ client' = IF out.result.kind = "Ok" THEN Some(out.result.value) ELSE None
           /\ pc' = IF out.result.kind = "Ok" THEN "ready"
                    ELSE IF out.result.kind = "Panic" THEN "aborted" ELSE "failed"
           /\ nBuilds' = nBuilds + Runs(out, "make_tlsclient")
    /\ args' = Some([name |-> name, server |-> server, auth |-> auth])
    /\ UNCHANGED <<caFile, nTimeoutBuilds>>

Get(path, srv) ==
    /\ pc = "ready"
    /\ last' = Call("get", path, None, TRUE, FALSE, srv, get(client[1], path, srv))
    /\ UNCHANGED <<pc, args, client, caFile, transports, nBuilds, nTimeoutBuilds>>

GetValue(path, srv) ==
    /\ pc = "ready"
    /\ last' = Call("get_value", path, None, TRUE, FALSE, srv,
                    get_value(client[1], path, srv))
    /\ UNCHANGED <<pc, args, client, caFile, transports, nBuilds, nTimeoutBuilds>>

GetRead(path, timeout, sockOk, late, srv) ==
    /\ pc = "ready"
    /\ Len(transports) < MaxTransports
    /\ LET out == get_read(client[1], caFile, path, timeout, sockOk, late, srv,
                           Len(transports) + 1)
       IN  /\ last' = Call("get_read", path, timeout, sockOk, late, srv, out)
           /\ transports' = transports \o out.built
           /\ pc' = After(out.result)
           /\ nBuilds' = nBuilds + Runs(out, "make_tlsclient")
           /\ nTimeoutBuilds' =
                 IF timeout # None /\ UrlJoin(client[1].endpoint, path).kind = "Ok"
                 THEN nTimeoutBuilds + 1 ELSE nTimeoutBuilds
    /\ UNCHANGED <<args, client, caFile>>

Delete(path, srv) ==
    /\ pc = "ready"
    /\ last' = Call("delete", path, None, TRUE, FALSE, srv,
                    delete(client[1], path, srv))
    /\ UNCHANGED <<pc, args, client, caFile, transports, nBuilds, nTimeoutBuilds>>

\* the file at cert_path is replaced, removed or corrupted by its owner
CaFileChange(file) ==
    /\ pc = "ready"
    /\ file # caFile
    /\ caFile' = file
    /\ last' = FileChanged
    /\ UNCHANGED <<pc, args, client, transports, nBuilds, nTimeoutBuilds>>

\* timeout, whether set_read_timeout succeeds, whether the response is late;
\* the last two have no effect without a timeout, the last has none when
\* set_read_timeout fails
TimeoutCases ==
    {<<None, TRUE, FALSE>>, <<Some("d"), FALSE, FALSE>>}
    \cup {<<Some("d"), TRUE, late>> : late \in BOOLEAN}

Next ==
    \/ \E name \in {"prod"}, server \in Servers, auth \in Auths : New(name, server, auth)
    \/ \E path \in Paths, srv \in ServerBehaviours : Get(path, srv)
    \/ \E path \in Paths, srv \in ServerBehaviours : GetValue(path, srv)
    \/ \E path \in Paths, t \in TimeoutCases, srv \in ServerBehaviours :
          GetRead(path, t[1], t[2], t[3], srv)
    \/ \E path \in Paths, srv \in ServerBehaviours : Delete(path, srv)
    \/ \E file \in CaFiles : CaFileChange(file)

Spec == Init /\ [][Next]_vars

\* ---------------------------------------------------------------- properties
Range(seq) == {seq[i] : i \in 1..Len(seq)}
IsPrefix(a, b) == Len(a) <= Len(b) /\ \A i \in 1..Len(a) : a[i] = b[i]

Result == last.out.result
Steps == last.out.steps
Reqs == last.out.reqs
Status == last.srv.resp.status
JoinOk == client # None /\ UrlJoin(client[1].endpoint, last.path).kind = "Ok"
\* the shared client reaches the server
Reaches == last.srv.reach /\ "server CA" \in client[1].client.tls.roots
\* the request was sent on the shared client and a response came back
Answered == JoinOk /\ Reaches
\* the call ended in check_resp, whose result is the call's result
ClassifiedCall ==
    last.op = "get_read" /\ Steps # <<>> /\ Steps[Len(Steps)] = "check_resp"
TimeoutCall == last.op = "get_read" /\ last.timeout # None
\* the file at cert_path can be loaded into a root store
CaLoads == caFile.open /\ caFile.pem
ExpectedHeader(auth) ==
    IF auth.tag = "Token" THEN <<[scheme |-> "Bearer", token |-> auth.token]>> ELSE <<>>
ExpectedClass(status) ==
    IF status = 401 THEN [from |-> "KubeErrNo", errno |-> "Unauthorized"]
    ELSE [from |-> "KubeErrNo", errno |-> "Unknown"]

C2_AuthorizationHeader ==
    client # None =>
        \A i \in 1..Len(Reqs) : Reqs[i].authorization = ExpectedHeader(client[1].auth)

C2_Witness ==
    /\ TimeoutCall
    /\ Len(Reqs) = 1
    /\ client[1].auth = [tag |-> "Token", token |-> "tokB"]
    /\ Reqs[1].authorization = <<[scheme |-> "Bearer", token |-> "tokB"]>>

\* C3: delete never classifies: once the URL joins and the transport
\* answers, delete returns the response with the server's status whatever it
\* is, and delete fails only with a URL or a transport error; get on a
\* non-200 status returns an error.
C3_DeleteUnclassified ==
    /\ last.op = "delete" =>
          /\ "check_resp" \notin Range(Steps)
          /\ Answered => Result = [kind |-> "Ok", value |-> last.srv.resp]
          /\ ~Answered =>
                /\ Result.kind = "Err"
                /\ Result.error.from = IF JoinOk THEN "hyper::Error" ELSE "url::ParseError"
    /\ (last.op = "get" /\ Answered /\ Status # 200) =>
          /\ Result.kind = "Err"
          /\ Result.error.from = "KubeErrNo"

C3_Witness ==
    /\ last.op = "delete"
    /\ Status = 403
    /\ Result = [kind |-> "Ok", value |-> [status |-> 403, body |-> "garbage"]]

\* C4 (as stated): a build of the TLS transport succeeds exactly when the CA
\* file opens and at least one certificate is loaded; otherwise it returns a
\* ConfigError: it never aborts and never yields an empty root store.
C4_BuildFailsWithConfigError ==
    "make_tlsclient" \in Range(Steps) =>
        LET loaded == caFile.open /\ caFile.pem /\ "server CA" \in caFile.sections
        IN  /\ Result.kind # "Panic"
            /\ (last.out.built # <<>>) <=> loaded
            /\ \A i \in 1..Len(last.out.built) : last.out.built[i].roots # {}
            /\ ~loaded => /\ Result.kind = "Err"
                          /\ Result.error.from = "ConfigError"
            /\ (loaded /\ "not a certificate" \in caFile.sections) => last.out.warned

C6_BadUrlGivesUrlError ==
    (last.op = "new" /\ UrlParse(args[1].server).kind = "Err") =>
        /\ Result = [kind |-> "Err", error |-> [from |-> "url::ParseError"]]
        /\ client = None

\* C7 (as stated): every failure is returned as an error value, never raised
\* as an abort; nothing runs after a failed step; at most one request is
\* sent by a call.
C7_FailuresReturned ==
    /\ Result.kind \in {"Ok", "Err"}
    /\ Len(Reqs) <= 1
    /\ (last.op \notin {"none", "new", "ca file changed"} /\ ~JoinOk) =>
          Steps = <<"Url::join">> /\ Reqs = <<>>
    /\ (Result.kind = "Err" /\ Steps[Len(Steps)] = "check_resp") =>
          "from_reader" \notin Range(Steps)

\* the same call without the timeout
WithoutTimeout == get_read(client[1], caFile, last.path, None, TRUE, FALSE, last.srv, 0)
SameRequests(a, b) ==
    (a # <<>> /\ b # <<>>) =>
        /\ a[1].method = b[1].method
        /\ a[1].url = b[1].url
        /\ a[1].authorization = b[1].authorization

\* C8 (as stated): whenever the timeout is not exceeded, get_read with a
\* timeout returns what get_read without one returns, and sends the same
\* request.
C8_TimeoutEquivalent ==
    (TimeoutCall /\ ~last.late) =>
        /\ Result = WithoutTimeout.result
        /\ SameRequests(Reqs, WithoutTimeout.reqs)

\* the CA file loads into the TLS configuration the shared client was built with
SameTrust == CaLoads /\ client[1].client.tls.roots = caFile.sections \cap {"server CA"}

\* C8 (amended): when the URL joins, get_read with a timeout aborts if the
\* CA file no longer loads, and returns the io error if set_read_timeout
\* fails on the connected request; when the CA file still loads into the
\* configuration the client was built with, set_read_timeout succeeds (or no
\* connection is made) and the timeout is not exceeded, it returns what
\* get_read without a timeout returns, having sent the same method, URL and
\* Authorization header on another transport.
C8_TimeoutEquivalentAfterSetup ==
    TimeoutCall =>
        /\ (JoinOk /\ ~CaLoads) => Result = [kind |-> "Panic", at |-> Result.at]
        /\ (JoinOk /\ CaLoads /\ last.srv.reach /\ "server CA" \in caFile.sections
              /\ ~last.sockOk) =>
              Result = [kind |-> "Err", error |-> [from |-> "io::Error"]]
        /\ (~JoinOk \/ (SameTrust /\ (~Reaches \/ (last.sockOk /\ ~last.late)))) =>
              /\ Result = WithoutTimeout.result
              /\ SameRequests(Reqs, WithoutTimeout.reqs)
              /\ (Reqs # <<>>) => Reqs[1].via.id # WithoutTimeout.reqs[1].via.id

C8_Witness ==
    /\ TimeoutCall
    /\ Status = 401
    /\ Len(Reqs) = 1
    /\ Result = [kind |-> "Err", error |-> ExpectedClass(401)]
    /\ Result = WithoutTimeout.result

\* C9: every transport built for the client carries a client certificate
\* chain and key exactly when the credential is CertKey, and then the
\* credential's own chain and key; a CertKey client sends no bearer header.
C9_ModesExclusive ==
    args # None =>
        LET auth == args[1].auth
        IN  /\ \A i \in 1..Len(transports) :
                  transports[i].identity =
                      IF auth.tag = "CertKey"
                      THEN <<[cert |-> auth.cert, key |-> auth.key]>>
                      ELSE <<>>
            /\ auth.tag = "CertKey" =>
                  \A i \in 1..Len(Reqs) : Reqs[i].authorization = <<>>

C9_Witness ==
    /\ TimeoutCall
    /\ args[1].auth.tag = "CertKey"
    /\ Len(transports) = 2
    /\ transports[2].identity = Some([cert |-> Some("certA"), key |-> "keyA"])
    /\ Len(Reqs) = 1

\* C10: get and get_value run send, classify, deserialize in that order; the
\* body is deserialized only for status 200; a non-200 status gives the
\* classification's error whatever the body; status 200 with a malformed
\* body gives the deserialization error; the two differ only in the target.
C10_Pipeline ==
    last.op \in {"get", "get_value"} =>
        LET target == IF last.op = "get" THEN "T" ELSE "Value"
            malformed == IF target = "T" THEN last.srv.resp.body # "json PodList"
                         ELSE last.srv.resp.body = "garbage"
        IN  /\ IsPrefix(Steps, <<"Url::join", "send", "check_resp", "from_reader">>)
            /\ ("from_reader" \in Range(Steps)) <=> (Answered /\ Status = 200)
            /\ (Answered /\ Status # 200) =>
                  Result = [kind |-> "Err", error |-> ExpectedClass(Status)]
            /\ (Answered /\ Status = 200 /\ malformed) =>
                  Result = [kind |-> "Err", error |-> [from |-> "serde_json::Error"]]
            /\ (Answered /\ Status = 200 /\ ~malformed) =>
                  Result = [kind |-> "Ok",
                            value |-> [type |-> target, of |-> last.srv.resp.body]]

C10_Witness ==
    /\ last.op = "get"
    /\ Status = 401
    /\ last.srv.resp.body = "garbage"
    /\ Steps = <<"Url::join", "send", "check_resp">>
    /\ Result = [kind |-> "Err", error |-> ExpectedClass(401)]

====
